---- MODULE Spec2Model ----
(***************************************************************************)
(* Releaser: monorepo release orchestrator (src/src/main.rs and the        *)
(* modules under src/src/).  Strings are sequences of one-character        *)
(* strings, so that splitting, searching, parsing and formatting are       *)
(* computed the way the code computes them.                                *)
(***************************************************************************)
EXTENDS Integers, Sequences, FiniteSets, TLC

VARIABLES
    args,                 \* command line: environment, dry_run, tag
    manifest,             \* releaser-manifest.json: the packages in order
    package_json,         \* <path>/package.json: name and version
    changelog_md,         \* <path>/CHANGELOG.md, None when absent
    extra_file,           \* the declared extra file of a package, None when absent
    pull_request_md,      \* pull_request_content.md, None when absent
    tags_file,            \* tags_to_create.txt, None when absent
    git_tags,             \* the tags of the repository
    git_log,              \* per path, the one-line commits since the tags, newest first
    git_commits,          \* messages of the commits created by the program
    pc,                   \* position of main
    idx,                  \* index of the package the current loop is at
    changed_packages,     \* HashMap name -> new version
    name_to_version,      \* HashMap name -> new version, for the commit message
    pull_request_content, \* accumulated pull-request text
    tags_to_create,       \* Vec of tag names
    computed,             \* per path, the new versions main computed, in order
    start,                \* the files and tags as they were when main started
    earlier,              \* what the earlier invocations computed
    fn_in,                \* arguments of a function applied on its own
    fn_out                \* its result

vars == <<args, manifest, package_json, changelog_md, extra_file, pull_request_md,
          tags_file, git_tags, git_log, git_commits, pc, idx, changed_packages,
          name_to_version, pull_request_content, tags_to_create, computed, start,
          earlier, fn_in, fn_out>>

(***************************************************************************)
(* Bounds of the model.                                                    *)
(***************************************************************************)
\* largest release number / prerelease counter of an enumerated input version
MaxNum == 2

\* number of packages of the manifest
NPkg == 3

(***************************************************************************)
(* Strings.                                                                *)
(***************************************************************************)
Digits == <<"0", "1", "2", "3", "4", "5", "6", "7", "8", "9">>

IsDigit(c) == \E i \in 1..10 : Digits[i] = c

DigitVal(c) == (CHOOSE i \in 1..10 : Digits[i] = c) - 1

Lower == {"a", "b", "c", "d", "e", "f", "g", "h", "i", "j", "k", "l", "m", "n", "o", "p", "q", "r", "s", "t", "u", "v", "w", "x", "y", "z"}

Upper == {"A", "B", "C", "D", "E", "F", "G", "H", "I", "J", "K", "L", "M", "N", "O", "P", "Q", "R", "S", "T", "U", "V", "W", "X", "Y", "Z"}

\* the characters of the model in byte order
Ascii == <<"\n", " ", "!", "#", "'", "(", ")", "*", "+", "-", ".", "/", "0", "1", "2", "3", "4", "5", "6", "7", "8", "9", ":", ";", "=", "A", "B", "C", "D", "E", "F", "G", "H", "I", "J", "K", "L", "M", "N", "O", "P", "Q", "R", "S", "T", "U", "V", "W", "X", "Y", "Z", "_", "a", "b", "c", "d", "e", "f", "g", "h", "i", "j", "k", "l", "m", "n", "o", "p", "q", "r", "s", "t", "u", "v", "w", "x", "y", "z">>

CharRank(c) == CHOOSE i \in 1..Len(Ascii) : Ascii[i] = c

\* the least element of a non-empty set of integers
MinOf(S) == CHOOSE x \in S : \A y \in S : x <= y

\* byte-wise order of two strings: the first position where they differ
\* decides, and a proper prefix comes first
LexLess(s, t) ==
    LET short == IF Len(s) < Len(t) THEN Len(s) ELSE Len(t)
        diff == {i \in 1..short : s[i] # t[i]}
    IN  IF diff = {} THEN Len(s) < Len(t)
        ELSE CharRank(s[MinOf(diff)]) < CharRank(t[MinOf(diff)])

\* a set of strings as the sequence in byte-wise order
RECURSIVE SortedSeq(_)
SortedSeq(S) ==
    IF S = {} THEN <<>>
    ELSE LET m == CHOOSE x \in S : \A y \in S \ {x} : LexLess(x, y)
         IN  <<m>> \o SortedSeq(S \ {m})

\* str::starts_with
StartsWith(s, pat) == Len(pat) <= Len(s) /\ SubSeq(s, 1, Len(pat)) = pat

\* the positions of s where an occurrence of pat starts
Occurrences(s, pat) ==
    {i \in 1..(Len(s) - Len(pat) + 1) : SubSeq(s, i, i + Len(pat) - 1) = pat}

\* str::split(&str), for a non-empty pat: the parts between the occurrences of
\* pat found from left to right without overlap, always at least one part
RECURSIVE SplitOn(_, _)
\* the part before the occurrence at position first, then the parts of the rest
SplitAt(s, pat, first) ==
    <<SubSeq(s, 1, first - 1)>> \o SplitOn(SubSeq(s, first + Len(pat), Len(s)), pat)

\* split at the leftmost of the occurrences
SplitFound(s, pat, occ) == IF occ = {} THEN <<s>> ELSE SplitAt(s, pat, MinOf(occ))

SplitOn(s, pat) == SplitFound(s, pat, Occurrences(s, pat))

\* str::split(char)
Split(s, sep) == SplitOn(s, <<sep>>)

\* str::ends_with
EndsWith(s, pat) ==
    Len(pat) <= Len(s) /\ SubSeq(s, Len(s) - Len(pat) + 1, Len(s)) = pat

\* str::contains
Contains(s, pat) ==
    \E i \in 0..(Len(s) - Len(pat)) : SubSeq(s, i + 1, i + Len(pat)) = pat

\* the suffix of s from position i on
From(s, i) == SubSeq(s, i, Len(s))

\* str::trim_start_matches: every repetition of pat at the start is removed
RECURSIVE TrimStartMatches(_, _)
TrimStartMatches(s, pat) ==
    IF pat # <<>> /\ StartsWith(s, pat) THEN TrimStartMatches(From(s, Len(pat) + 1), pat)
    ELSE s

\* [String]::join
RECURSIVE Join(_, _)
Join(parts, sep) ==
    IF parts = <<>> THEN <<>>
    ELSE IF Len(parts) = 1 THEN parts[1]
    ELSE parts[1] \o sep \o Join(Tail(parts), sep)

\* str::replace, for a non-empty pat: every occurrence of pat found from left
\* to right without overlap is replaced
ReplaceAll(s, pat, rep) == Join(SplitOn(s, pat), rep)

\* the parts without a last empty one
DropLastEmpty(parts) ==
    IF parts[Len(parts)] = <<>> THEN SubSeq(parts, 1, Len(parts) - 1) ELSE parts

\* a line without its carriage return
StripCR(line) ==
    IF line # <<>> /\ line[Len(line)] = "\r" THEN SubSeq(line, 1, Len(line) - 1)
    ELSE line

\* each line without its carriage return
StripCRs(lines) == [i \in 1..Len(lines) |-> StripCR(lines[i])]

\* str::lines: split at line feeds, without a last empty line, each line
\* without its carriage return
Lines(s) == StripCRs(DropLastEmpty(Split(s, "\n")))

\* value of a run of decimal digits, most significant first
RECURSIVE DigitsValue(_, _)
DigitsValue(s, acc) ==
    IF s = <<>> THEN acc ELSE DigitsValue(Tail(s), 10 * acc + DigitVal(Head(s)))

\* str::parse::<u32>(): an optional leading plus sign, then one or more decimal
\* digits; -1 stands for Err.  The numbers of the enumerated inputs stay far
\* below the range of a u32, whose upper limit is therefore not modelled.
ParseU32(s) ==
    LET body == IF s # <<>> /\ Head(s) = "+" THEN Tail(s) ELSE s
    IN  IF body = <<>> \/ \E i \in 1..Len(body) : ~IsDigit(body[i]) THEN -1
        ELSE DigitsValue(body, 0)

\* Display of a u32: decimal digits without leading zeros
RECURSIVE FormatU32(_)
FormatU32(n) ==
    IF n < 10 THEN <<Digits[n + 1]>>
    ELSE FormatU32(n \div 10) \o <<Digits[(n % 10) + 1]>>

\* n + 1 on a u32 (no enumerated input reaches the upper limit)
Add1(n) == n + 1

\* the value of an absent file or of an Option that is None
None == <<"<none>">>

(***************************************************************************)
(* Version arithmetic (src/src/versionning/semver.rs).                     *)
(***************************************************************************)
Semver == {"Patch", "Minor", "Major"}

\* the value standing for a panicked call (unwrap on Err, index out of range)
PANIC == <<"<panic>">>

BETA == <<"b", "e", "t", "a">>

\* format!("{}.{}.{}", a, b, c)
Dotted(a, b, c) == FormatU32(a) \o <<".">> \o FormatU32(b) \o <<".">> \o FormatU32(c)

\* a Minor or Major bump that leaves the lower-order numbers as they were
ProductionRelease_KeepLower(major, minor, patch, semver) ==
    CASE semver = "Patch" -> Dotted(major, minor, Add1(patch))
      [] semver = "Minor" -> Dotted(major, Add1(minor), patch)
      [] semver = "Major" -> Dotted(Add1(major), minor, patch)

\* production, no marker on the input: the bump is applied
ProductionRelease(major, minor, patch, semver) ==
    CASE semver = "Patch" -> Dotted(major, minor, Add1(patch))
      [] semver = "Minor" -> Dotted(major, Add1(minor), 0)
      [] semver = "Major" -> Dotted(Add1(major), 0, 0)

\* a promotion that forgets to strip the marker
ProductionPromote_KeepMarker(major, minor, patch) ==
    Dotted(major, minor, patch) \o <<"-">> \o BETA

\* production, marker on the input: the prerelease is promoted as it is
ProductionPromote(major, minor, patch) == Dotted(major, minor, patch)

\* a prerelease bump that carries the counter over without advancing it
StagingCounted_SameCounter(major, minor, patch, semver, beta_version) ==
    LET suffix == <<"-">> \o BETA \o <<".">> \o FormatU32(beta_version)
    IN  CASE semver = "Patch" -> Dotted(major, minor, Add1(patch)) \o suffix
          [] semver = "Minor" -> Dotted(major, Add1(minor), 0) \o suffix
          [] semver = "Major" -> Dotted(Add1(major), 0, 0) \o suffix

\* a prerelease bump that restarts the counter at 1 on new release numbers
StagingCounted_ResetCounter(major, minor, patch, semver, beta_version) ==
    LET suffix == <<"-">> \o BETA \o <<".", "1">>
    IN  CASE semver = "Patch" -> Dotted(major, minor, Add1(patch)) \o suffix
          [] semver = "Minor" -> Dotted(major, Add1(minor), 0) \o suffix
          [] semver = "Major" -> Dotted(Add1(major), 0, 0) \o suffix

\* other channel, marker on the input: beta_version is its counter, 0 without
StagingCounted(major, minor, patch, semver, beta_version) ==
    LET suffix == <<"-">> \o BETA \o <<".">> \o FormatU32(Add1(beta_version))
    IN  CASE semver = "Patch" -> Dotted(major, minor, Add1(patch)) \o suffix
          [] semver = "Minor" -> Dotted(major, Add1(minor), 0) \o suffix
          [] semver = "Major" -> Dotted(Add1(major), 0, 0) \o suffix

\* a prerelease of the release numbers of the input
StagingBare_NoBump(major, minor, patch, semver) ==
    Dotted(major, minor, patch) \o <<"-">> \o BETA

\* other channel, no marker on the input
StagingBare(major, minor, patch, semver) ==
    LET suffix == <<"-">> \o BETA
    IN  CASE semver = "Patch" -> Dotted(major, minor, Add1(patch)) \o suffix
          [] semver = "Minor" -> Dotted(major, Add1(minor), 0) \o suffix
          [] semver = "Major" -> Dotted(Add1(major), 0, 0) \o suffix

increase_version(version, semver, environment) ==
    LET captures == Split(version, "-")
        raw_version == captures[1]
        is_beta == Len(captures) > 1
        nums == Split(raw_version, ".")
    IN  IF Len(nums) < 3 THEN PANIC
        ELSE
        LET patch == ParseU32(nums[3])
            minor == ParseU32(nums[2])
            major == ParseU32(nums[1])
        IN  IF patch < 0 \/ minor < 0 \/ major < 0 THEN PANIC
            ELSE IF environment = "production" THEN
                IF is_beta THEN ProductionPromote(major, minor, patch)
                ELSE ProductionRelease(major, minor, patch, semver)
            ELSE
                IF is_beta THEN
                    LET beta_raw_version == Split(captures[2], ".")
                        beta_version == IF Len(beta_raw_version) > 1
                                        THEN ParseU32(beta_raw_version[2])
                                        ELSE 0
                    IN  IF beta_version < 0 THEN PANIC
                        ELSE StagingCounted(major, minor, patch, semver, beta_version)
                ELSE StagingBare(major, minor, patch, semver)

(***************************************************************************)
(* Semantic version ordering and the latest tag (src/src/main.rs).         *)
(***************************************************************************)
\* a_beta.trim_start_matches("beta.").parse::<u32>().unwrap_or(0)
BETA_DOT == <<"b", "e", "t", "a", ".">>

\* the counter of a prerelease part read as 0 whatever it is
BetaNum_Zero(part) == 0

BetaNum(part) ==
    LET n == ParseU32(TrimStartMatches(part, BETA_DOT)) IN IF n < 0 THEN 0 ELSE n

\* u32::cmp
CmpNum(a, b) == IF a < b THEN "Less" ELSE IF a > b THEN "Greater" ELSE "Equal"

\* a_version[i].parse::<u32>().unwrap_or(0)
NumOr0(s) == LET n == ParseU32(s) IN IF n < 0 THEN 0 ELSE n

\* the loop over the three release numbers: the first that differs decides;
\* "Panic" stands for the index out of range of a release part with fewer
\* than three numbers that the loop reaches
RECURSIVE CmpRelease(_, _, _)
CmpRelease(a_version, b_version, i) ==
    IF i > 3 THEN "Equal"
    ELSE IF i > Len(a_version) \/ i > Len(b_version) THEN "Panic"
    ELSE LET c == CmpNum(NumOr0(a_version[i]), NumOr0(b_version[i]))
         IN  IF c = "Equal" THEN CmpRelease(a_version, b_version, i + 1) ELSE c

semver_compare(a, b) ==
    LET a_parts == Split(a, "-")
        b_parts == Split(b, "-")
        a_version == Split(a_parts[1], ".")
        b_version == Split(b_parts[1], ".")
        c == CmpRelease(a_version, b_version, 1)
    IN  IF c # "Equal" THEN c
        ELSE IF Len(a_parts) = 1 /\ Len(b_parts) = 1 THEN "Equal"
        ELSE IF Len(a_parts) = 1 THEN "Greater"
        ELSE IF Len(b_parts) = 1 THEN "Less"
        ELSE CmpNum(BetaNum(a_parts[2]), BetaNum(b_parts[2]))

TAG_INFIX == <<"-", "v">>

BETA_MARK == <<"-", "b", "e", "t", "a">>

\* format!("{}-v{}", name, version)
TagName(name, version) == name \o TAG_INFIX \o version

\* git tag -l "<prefix>*": the tags that start with the prefix, in byte order
GitTagList(tags, prefix) == SortedSeq({t \in tags : StartsWith(t, prefix)})

\* max_by keeping its first element whatever the comparison says
MaxBy_First(best, rest, tag_prefix) == best

\* Iterator::max_by: the last of the greatest elements; "Panic" when the
\* comparison panics
RECURSIVE MaxBy(_, _, _)
MaxBy(best, rest, tag_prefix) ==
    IF rest = <<>> \/ best = PANIC THEN best
    ELSE LET c == semver_compare(TrimStartMatches(best, tag_prefix),
                                 TrimStartMatches(Head(rest), tag_prefix))
         IN  IF c = "Panic" THEN PANIC
             ELSE MaxBy(IF c = "Greater" THEN best ELSE Head(rest), Tail(rest), tag_prefix)

\* the environment's filter of get_latest_tag
TagFilter(tag, environment) ==
    IF environment = "production" THEN ~Contains(tag, BETA_MARK) ELSE TRUE

get_latest_tag(tags, name, version, environment) ==
    LET tag_prefix == name \o TAG_INFIX
        listed == GitTagList(tags, tag_prefix)
        kept == SelectSeq(listed, LAMBDA tag : TagFilter(tag, environment))
    IN  IF kept = <<>> THEN TagName(name, version)
        ELSE MaxBy(Head(kept), Tail(kept), tag_prefix)

\* get_higher_semver returning the bump it is given last
get_higher_semver_Latest(current_semver, new_semver) == new_semver

get_higher_semver(current_semver, new_semver) ==
    CASE current_semver = "Patch" -> new_semver
      [] current_semver = "Minor" -> IF new_semver = "Major" THEN "Major" ELSE "Minor"
      [] current_semver = "Major" -> "Major"

(***************************************************************************)
(* Commit lines and the changelog (src/src/main.rs).                       *)
(***************************************************************************)
\* [0-9a-f]
IsHex(c) == IsDigit(c) \/ c \in {"a", "b", "c", "d", "e", "f"}

\* \s
IsSpace(c) == c \in {" ", "\t", "\n", "\r", "\f"}

\* \w
IsWord(c) == IsDigit(c) \/ c \in Lower \/ c \in Upper \/ c = "_"

\* the character classes of the regular expressions
InClass(class, c) ==
    CASE class = "hex" -> IsHex(c)
      [] class = "space" -> IsSpace(c)
      [] class = "word" -> IsWord(c)
      [] class = "digit" -> IsDigit(c)
      [] class = "notparen" -> c # ")"
      [] class = "versionchar" -> IsDigit(c) \/ c \in Lower \/ c \in Upper \/ c = "."

\* the length of the longest run of characters of a class that starts at
\* position i of s
RunFrom(s, i, class) ==
    MinOf({j \in i..Len(s) : ~InClass(class, s[j])} \cup {Len(s) + 1}) - i

\* the position after a run of n characters that starts at position i, 0 for
\* an empty run
AfterLen(i, n) == IF n <= 0 THEN 0 ELSE i + n

\* a class with + at position i of s: the position after the longest run, 0
\* when no character matches or when i is 0 (no match so far)
AfterRun(s, i, class) ==
    IF i = 0 THEN 0 ELSE AfterLen(i, RunFrom(s, i, class))

\* one literal character at position i of s: the position after it, 0 when
\* it is not there or when i is 0
AfterChar(s, i, c) ==
    IF i = 0 \/ i > Len(s) THEN 0
    ELSE IF s[i] = c THEN i + 1 ELSE 0

STARS == <<"*", "*">>

STARS_COLON == <<"*", "*", ":", " ">>

\* The regular expression ^[0-9a-f]+\s+\w+\(([^)]+)\):\s+(.+)$ is matched
\* from left to right.  The classes that follow each other are disjoint, so
\* each run is the longest one, except the last blanks, which leave one
\* character to the message.

\* ^[0-9a-f]+\s+\w+\( : the position of the first character of the scope
ScopeStart(input) ==
    AfterChar(input,
              AfterRun(input, AfterRun(input, AfterRun(input, 1, "hex"), "space"), "word"),
              "(")

\* ([^)]+)\): : the position after the colon
AfterColon(input, scope_start) ==
    AfterChar(input, AfterChar(input, AfterRun(input, scope_start, "notparen"), ")"), ":")

\* \s+(.+)$ from the position after the blanks: the position of the first
\* character of the message
MessageStartAt(input, after_colon, after_blanks) ==
    IF after_blanks = 0 THEN 0
    ELSE IF after_blanks <= Len(input) THEN after_blanks
    ELSE IF after_blanks - 1 > after_colon THEN after_blanks - 1
    ELSE 0

MessageStart(input, after_colon) ==
    MessageStartAt(input, after_colon, AfterRun(input, after_colon, "space"))

\* the two groups, <<>> when the line does not match; a line feed is matched
\* by no `.`
Captured(input, scope_start, after_colon, message_start) ==
    IF message_start = 0 \/ \E i \in message_start..Len(input) : input[i] = "\n" THEN <<>>
    ELSE <<SubSeq(input, scope_start, after_colon - 3),
           SubSeq(input, message_start, Len(input))>>

CapturesAfter(input, scope_start, after_colon) ==
    Captured(input, scope_start, after_colon, MessageStart(input, after_colon))

CapturesFrom(input, scope_start) ==
    CapturesAfter(input, scope_start, AfterColon(input, scope_start))

\* Regex::captures: <<scope, message>> when the line matches, <<>> when not
CommitCaptures(input) == CapturesFrom(input, ScopeStart(input))

\* the formatted line for the captures of a line
FormatCaptures(input, captures) ==
    IF captures # <<>> THEN STARS \o captures[1] \o STARS_COLON \o captures[2]
    ELSE input

format_commit_message(input) == FormatCaptures(input, CommitCaptures(input))

FEAT == <<"f", "e", "a", "t", "(">>

FIX == <<"f", "i", "x", "(">>

PERF == <<"p", "e", "r", "f", "(">>

BREAKING_FEAT == <<"!", "f", "e", "a", "t", "(">>

BREAKING_FIX == <<"!", "f", "i", "x", "(">>

NL == <<"\n">>

\* the struct Changelog with the bump found so far
EmptyChangelog ==
    [features |-> <<>>, fixes |-> <<>>, perf |-> <<>>, breaking |-> <<>>,
     semver_target |-> "Patch"]

\* the test of the last `if` of the loop body
IsBreaking(line) == Contains(line, BREAKING_FEAT) \/ Contains(line, BREAKING_FIX)

\* the push of the loop body putting the newest entry first
Push_Front(section, holds, line) ==
    IF holds THEN format_commit_message(line) \o NL \o section ELSE section

\* one `if` of the loop body on a section: the formatted line and a line
\* feed are pushed when the test holds
Push(section, holds, line) ==
    IF holds THEN section \o format_commit_message(line) \o NL ELSE section

\* one `if` of the loop body on the bump
Raise(semver_target, holds, to) ==
    IF holds THEN get_higher_semver(semver_target, to) ELSE semver_target

\* the body of the loop over the lines of the commit log: the four tests in
\* the order of the code
ClassifyLine(acc, line) ==
    [features |-> Push(acc.features, Contains(line, FEAT), line),
     fixes |-> Push(acc.fixes, Contains(line, FIX), line),
     perf |-> Push(acc.perf, Contains(line, PERF), line),
     breaking |-> Push(acc.breaking, IsBreaking(line), line),
     semver_target |->
         Raise(Raise(Raise(Raise(acc.semver_target,
                                 Contains(line, FEAT), "Minor"),
                           Contains(line, FIX), "Patch"),
                     Contains(line, PERF), "Patch"),
               IsBreaking(line), "Major")]

\* the loop of main over git_log_result.lines()
RECURSIVE Classify(_, _)
Classify(acc, lines) ==
    IF lines = <<>> THEN acc ELSE Classify(ClassifyLine(acc, Head(lines)), Tail(lines))

H1 == <<"#", " ">>

H2_VERSION == <<"#", "#", " ", "V", "e", "r", "s", "i", "o", "n", " ">>

H3_FEATURES == <<"#", "#", "#", " ", "F", "e", "a", "t", "u", "r", "e", "s", "\n">>

H3_FIXES == <<"#", "#", "#", " ", "F", "i", "x", "e", "s", "\n">>

H3_PERF == <<"#", "#", "#", " ", "P", "e", "r", "f", "o", "r", "m", "a", "n", "c", "e", "\n">>

\* get_new_changelog that also writes the breaking entries
get_new_changelog_WithBreaking(name, new_version, changelog) ==
    H1 \o name \o NL
       \o H2_VERSION \o new_version \o NL
       \o (IF changelog.features # <<>> THEN H3_FEATURES \o changelog.features \o NL ELSE <<>>)
       \o (IF changelog.fixes # <<>> THEN H3_FIXES \o changelog.fixes \o NL ELSE <<>>)
       \o (IF changelog.perf # <<>> THEN H3_PERF \o changelog.perf \o NL ELSE <<>>)
       \o changelog.breaking

get_new_changelog(name, new_version, changelog) ==
    H1 \o name \o NL
       \o H2_VERSION \o new_version \o NL
       \o (IF changelog.features # <<>> THEN H3_FEATURES \o changelog.features \o NL ELSE <<>>)
       \o (IF changelog.fixes # <<>> THEN H3_FIXES \o changelog.fixes \o NL ELSE <<>>)
       \o (IF changelog.perf # <<>> THEN H3_PERF \o changelog.perf \o NL ELSE <<>>)

\* update_changelog appending the existing content in a dry run too
update_changelog_DryAsReal(current_changelog, name, new_changelog_body, is_dry_run) ==
    IF current_changelog # None
    THEN new_changelog_body \o ReplaceAll(current_changelog, H1 \o name \o NL, <<>>)
    ELSE new_changelog_body

\* update_changelog that puts the existing content first
update_changelog_OldFirst(current_changelog, name, new_changelog_body, is_dry_run) ==
    IF is_dry_run THEN new_changelog_body
    ELSE IF current_changelog # None
         THEN ReplaceAll(current_changelog, H1 \o name \o NL, <<>>) \o new_changelog_body
         ELSE new_changelog_body

update_changelog(current_changelog, name, new_changelog_body, is_dry_run) ==
    IF is_dry_run THEN new_changelog_body
    ELSE IF current_changelog # None
         THEN new_changelog_body \o ReplaceAll(current_changelog, H1 \o name \o NL, <<>>)
         ELSE new_changelog_body

\* the lines of the body that do not start with '#', joined by line feeds
FilteredBody(changelog_body) ==
    Join(SelectSeq(Lines(changelog_body), LAMBDA line : ~StartsWith(line, <<"#">>)), NL)

PR_H2 == <<"#", "#", " ">>

PR_SEP == <<" ", "-", " ">>

\* what main appends to pull_request_content for one package
PullRequestEntry(name, new_version, changelog_body) ==
    PR_H2 \o name \o PR_SEP \o new_version \o NL \o FilteredBody(changelog_body) \o NL \o NL

(***************************************************************************)
(* Extra files (src/src/main.rs, increase_extra_files_version).            *)
(***************************************************************************)
MARKER == <<"/", "/", " ", "x", "-", "r", "e", "l", "e", "a", "s", "e", "r", "-", "v", "e", "r", "s", "i", "o", "n">>

\* \d+\.\d+\.\d+ at position i of s: the position after it, 0 when there is
\* no match
CoreEnd(s, i) ==
    AfterRun(s, AfterChar(s, AfterRun(s, AfterChar(s, AfterRun(s, i, "digit"), "."),
                                      "digit"), "."),
             "digit")

\* (-[a-zA-Z0-9.]+)? after the core: the position after the whole match
WithPrerelease(s, core_end, prerelease_end) ==
    IF prerelease_end # 0 THEN prerelease_end ELSE core_end

\* the whole expression after the core
AfterCore(s, core_end) ==
    WithPrerelease(s, core_end, AfterRun(s, AfterChar(s, core_end, "-"), "versionchar"))

\* \d+\.\d+\.\d+(-[a-zA-Z0-9.]+)? at position i of s: the position after the
\* match, 0 when there is none
VersionEnd(s, i) == AfterCore(s, CoreEnd(s, i))

\* the match that starts at position i
MatchAt(s, i) == SubSeq(s, i, VersionEnd(s, i) - 1)

\* the leftmost of the matches
Leftmost(s, at) == IF at = {} THEN <<>> ELSE MatchAt(s, MinOf(at))

\* Regex::find: the leftmost match, <<>> when there is none
FindVersion(s) == Leftmost(s, {i \in 1..Len(s) : IsDigit(s[i]) /\ VersionEnd(s, i) # 0})

\* the line with the version that was found replaced
ReplaceVersion(line, old_version, new_version) ==
    IF old_version # <<>> THEN ReplaceAll(line, old_version, new_version) ELSE line

\* the closure applied to each line of an extra file
ExtraLine(line, new_version) ==
    IF Contains(line, MARKER)
    THEN ReplaceVersion(line, FindVersion(SplitOn(line, MARKER)[1]), new_version)
    ELSE line

\* the closure applied to every line
ExtraLines(lines, new_version) ==
    [i \in 1..Len(lines) |-> ExtraLine(lines[i], new_version)]

\* the line feed the contents ended with is kept
KeepTrailingNewline(contents, new_contents) ==
    IF EndsWith(contents, NL) THEN new_contents \o NL ELSE new_contents

\* the new contents of one extra file
ExtraContents(contents, new_version) ==
    KeepTrailingNewline(contents, Join(ExtraLines(Lines(contents), new_version), NL))

\* increase_extra_files_version on the extra files of a package: what the
\* files hold afterwards
increase_extra_files_version(files, extra_files, new_version, is_dry_run) ==
    [f \in DOMAIN files |->
        IF f \in extra_files /\ ~is_dry_run THEN ExtraContents(files[f], new_version)
        ELSE files[f]]

(***************************************************************************)
(* Package metadata and the version-control tool.                          *)
(***************************************************************************)
\* get_version_and_name: <<name, version>> of <path>/package.json
get_version_and_name(files, path) == <<files[path].name, files[path].version>>

\* update_package without its early return on a dry run
update_package_Always(files, package_path, new_version, is_dry_run) ==
    [files EXCEPT ![package_path].version = new_version]

\* update_package: the package.json files afterwards
update_package(files, package_path, new_version, is_dry_run) ==
    IF is_dry_run THEN files
    ELSE [files EXCEPT ![package_path].version = new_version]

\* has_dependency_changes finding nothing
has_dependency_changes_Never(package, changed) == FALSE

\* has_dependency_changes finding a change whatever the dependencies
has_dependency_changes_Always(package, changed) == TRUE

has_dependency_changes(package, changed) ==
    \E dep \in package.dependencies : dep \in DOMAIN changed

\* HashMap::insert
Insert(map, key, value) == (key :> value) @@ map

\* git diff --name-only <last_tag> HEAD -- <path>: whether it prints a path.
\* A revision that is no tag makes git fail and print nothing on stdout.
GitDiffNonEmpty(tags, logs, last_tag, path) ==
    last_tag \in tags /\ logs[path] # <<>>

\* git log <last_tag>..HEAD --oneline -- <path>
GitLogPath(tags, logs, last_tag, path) ==
    IF last_tag \in tags THEN logs[path] ELSE <<>>

\* the commits of all the paths, one path after the other
RECURSIVE AllLogs(_, _)
AllLogs(logs, paths) ==
    IF paths = <<>> THEN <<>> ELSE logs[Head(paths)] \o AllLogs(logs, Tail(paths))

\* git log <last_tag>..HEAD --oneline
GitLogAll(tags, logs, last_tag) ==
    IF last_tag \in tags THEN AllLogs(logs, [i \in 1..NPkg |-> i]) ELSE <<>>

\* the loop of determine_semver_target without its test of feat(
DetermineLoop_BreakingOnly(lines, semver_target) ==
    IF \E i \in 1..Len(lines) : IsBreaking(lines[i]) THEN "Major" ELSE semver_target

\* the loop of determine_semver_target
RECURSIVE DetermineLoop(_, _)
DetermineLoop(lines, semver_target) ==
    IF lines = <<>> THEN semver_target
    ELSE LET line == Head(lines)
             t == IF Contains(line, FEAT) THEN get_higher_semver(semver_target, "Minor")
                  ELSE semver_target
         IN  IF IsBreaking(line) THEN "Major"
             ELSE DetermineLoop(Tail(lines), t)

determine_semver_target(tags, logs, name, version, environment) ==
    LET last_tag == get_latest_tag(tags, name, version, environment)
    IN  DetermineLoop(GitLogAll(tags, logs, last_tag), "Patch")

(***************************************************************************)
(* The repositories main is started on.                                    *)
(***************************************************************************)
Environments == {"production", "staging"}

Paths == 1..NPkg

Letters == <<"a", "b", "c", "d", "e", "f", "g", "h">>

PKG_PREFIX == <<"p", "k", "g", "-">>

PkgName(p) == PKG_PREFIX \o <<Letters[p]>>

V_1_0_0 == <<"1", ".", "0", ".", "0">>

V_2_3_4 == <<"2", ".", "3", ".", "4">>

V_1_2_3_beta_1 == <<"1", ".", "2", ".", "3", "-", "b", "e", "t", "a", ".", "1">>

StartVersions == {V_1_0_0, V_2_3_4, V_1_2_3_beta_1}

LINE_FEAT == <<"h", "1", " ", "f", "e", "a", "t", "(", "x", ")", ":", " ", "a", "d", "d", " ", "t", "h", "i", "n", "g">>

LINE_FIX == <<"h", "2", " ", "f", "i", "x", "(", "y", ")", ":", " ", "f", "i", "x", " ", "t", "h", "i", "n", "g">>

LINE_BREAKING == <<"h", "1", " ", "!", "f", "i", "x", "(", "c", "o", "r", "e", ")", ":", " ", "b", "r", "e", "a", "k", "i", "n", "g", " ", "c", "h", "a", "n", "g", "e">>

\* what the history holds for a package: no tag of its version; a tag and no
\* commit since; a tag and the commits of one of the documented scenarios
Scenarios == {"untagged", "clean", "A", "B"}

ScenarioLog(sc) ==
    CASE sc = "A" -> <<LINE_FEAT, LINE_FIX>>
      [] sc = "B" -> <<LINE_BREAKING>>
      [] OTHER -> <<>>

\* the dependencies of a manifest: none; each package on the one before it
\* in the manifest; each package on the one after it
DepShapes == {"none", "chain", "reverse"}

Dependencies(shape, p) ==
    CASE shape = "chain" /\ p > 1 -> {PkgName(p - 1)}
      [] shape = "reverse" /\ p < NPkg -> {PkgName(p + 1)}
      [] OTHER -> {}

OLD_SECTION == <<"#", "#", " ", "V", "e", "r", "s", "i", "o", "n", " ", "0", ".", "9", ".", "0", "\n">>

EXTRA_HEAD == <<"v", " ", "=", " ", "'">>

EXTRA_TAIL == <<"'", ";", " ", "/", "/", " ", "x", "-", "r", "e", "l", "e", "a", "s", "e", "r", "-", "v", "e", "r", "s", "i", "o", "n", "\n", "o", "t", "h", "e", "r", "\n">>

\* the packages at odd positions declare an extra file, those at even
\* positions have a changelog already
HasExtra(p) == p % 2 = 1

HasChangelog(p) == p % 2 = 0

\* the files and the tags main reads and writes
Files == [package_json |-> package_json, changelog_md |-> changelog_md,
          extra_file |-> extra_file, pull_request_md |-> pull_request_md,
          tags_file |-> tags_file, git_tags |-> git_tags]

\* the state of a process that has just been started
Started ==
    /\ pc = "first"
    /\ idx = 1
    /\ changed_packages = <<>>
    /\ name_to_version = <<>>
    /\ pull_request_content = <<>>
    /\ tags_to_create = <<>>
    /\ computed = [p \in Paths |-> <<>>]

FnIdle == fn_in = None /\ fn_out = None

InitRun(tag_mode, scenarios) ==
    \E v0 \in StartVersions, scen \in [Paths -> scenarios], shape \in DepShapes :
        /\ args \in [environment : Environments, dry_run : BOOLEAN, tag : {tag_mode}]
        /\ manifest = [p \in Paths |->
                          [path |-> p, dependencies |-> Dependencies(shape, p),
                           extra_files |-> IF HasExtra(p) THEN {p} ELSE {}]]
        /\ package_json = [p \in Paths |-> [name |-> PkgName(p), version |-> v0]]
        /\ changelog_md = [p \in Paths |->
                              IF HasChangelog(p) THEN H1 \o PkgName(p) \o NL \o OLD_SECTION
                              ELSE None]
        /\ extra_file = [p \in Paths |->
                            IF HasExtra(p) THEN EXTRA_HEAD \o v0 \o EXTRA_TAIL ELSE None]
        /\ pull_request_md = None
        /\ tags_file = None
        /\ git_tags = {TagName(PkgName(p), v0) : p \in {q \in Paths : scen[q] # "untagged"}}
        /\ git_log = [p \in Paths |-> ScenarioLog(scen[p])]
        /\ git_commits = <<>>
        /\ Started
        /\ start = [package_json |-> package_json, changelog_md |-> changelog_md,
                    extra_file |-> extra_file, pull_request_md |-> None,
                    tags_file |-> None, git_tags |-> git_tags]
        /\ earlier = <<>>
        /\ FnIdle

Init == InitRun(FALSE, Scenarios) \/ InitRun(TRUE, {"untagged", "clean"})

(***************************************************************************)
(* main (src/src/main.rs).                                                 *)
(***************************************************************************)
\* a loop over the manifest left after its first iteration
LoopOn_Early(after) == pc' = after /\ idx' = 1

\* the end of one iteration of a loop over the manifest
LoopOn(after) ==
    IF idx = Len(manifest) THEN pc' = after /\ idx' = 1
    ELSE pc' = pc /\ idx' = idx + 1

\* a panic ends the process where it is
Abort ==
    /\ pc' = "panicked"
    /\ UNCHANGED <<args, manifest, package_json, changelog_md, extra_file,
                   pull_request_md, tags_file, git_tags, git_log, git_commits, idx,
                   changed_packages, name_to_version, pull_request_content,
                   tags_to_create, computed, start, earlier, fn_in, fn_out>>

\* a failed git tag -a ending the process
TagResult_Fatal(created) ==
    IF created THEN LoopOn("second") ELSE pc' = "panicked" /\ idx' = idx

\* match tag_result: every arm prints and the iteration ends as usual
TagResult(created) == LoopOn("second")

\* first loop, --tag: a tag of the current version unless there is one
TagPackage ==
    /\ pc = "first"
    /\ args.tag
    /\ LET package == manifest[idx]
           name == get_version_and_name(package_json, package.path)[1]
           version == get_version_and_name(package_json, package.path)[2]
           last_tag == get_latest_tag(git_tags, name, version, args.environment)
           tag == TagName(name, version)
       IN  IF last_tag = PANIC THEN Abort
           ELSE
           /\ IF ~args.dry_run /\ tag \notin git_tags
              THEN /\ tags_to_create' = Append(tags_to_create, tag)
                   /\ \E created \in BOOLEAN :
                         /\ git_tags' = IF created THEN git_tags \cup {tag} ELSE git_tags
                         /\ TagResult(created)
              ELSE /\ UNCHANGED <<tags_to_create, git_tags>>
                   /\ LoopOn("second")
           /\ UNCHANGED <<args, manifest, package_json, changelog_md, extra_file,
                          pull_request_md, tags_file, git_log, git_commits,
                          changed_packages, name_to_version, pull_request_content,
                          computed, start, earlier, fn_in, fn_out>>

\* first loop, a package without changes since its latest tag
SkipPackage ==
    /\ pc = "first"
    /\ ~args.tag
    /\ LET package == manifest[idx]
           name == get_version_and_name(package_json, package.path)[1]
           version == get_version_and_name(package_json, package.path)[2]
           last_tag == get_latest_tag(git_tags, name, version, args.environment)
       IN  /\ last_tag # PANIC
           /\ ~GitDiffNonEmpty(git_tags, git_log, last_tag, package.path)
    /\ LoopOn("second")
    /\ UNCHANGED <<args, manifest, package_json, changelog_md, extra_file,
                   pull_request_md, tags_file, git_tags, git_log, git_commits,
                   changed_packages, name_to_version, pull_request_content,
                   tags_to_create, computed, start, earlier, fn_in, fn_out>>

\* first loop, a package with changes: version, changelog, files, record
ReleasePackage ==
    /\ pc = "first"
    /\ ~args.tag
    /\ LET package == manifest[idx]
           name == get_version_and_name(package_json, package.path)[1]
           version == get_version_and_name(package_json, package.path)[2]
       IN  \E last_tag \in {get_latest_tag(git_tags, name, version, args.environment)} :
           /\ last_tag = PANIC \/ GitDiffNonEmpty(git_tags, git_log, last_tag, package.path)
           /\ \E changelog \in {Classify(EmptyChangelog,
                                   GitLogPath(git_tags, git_log, last_tag, package.path))} :
              \E new_version \in {increase_version(version, changelog.semver_target,
                                                   args.environment)} :
              \E changelog_body \in {get_new_changelog(name, new_version, changelog)} :
              LET current_changelog == changelog_md[package.path]
                  updated_changelog == update_changelog(current_changelog, name,
                                                        changelog_body, args.dry_run)
              IN  IF last_tag = PANIC \/ new_version = PANIC THEN Abort
                  ELSE
                  /\ changelog_md' =
                         IF args.dry_run THEN changelog_md
                         ELSE [changelog_md EXCEPT ![package.path] = updated_changelog]
                  /\ pull_request_content' =
                         pull_request_content
                             \o PullRequestEntry(name, new_version, changelog_body)
                  /\ package_json' = update_package(package_json, package.path,
                                                    new_version, args.dry_run)
                  /\ extra_file' = increase_extra_files_version(extra_file,
                                       package.extra_files, new_version, args.dry_run)
                  /\ changed_packages' = Insert(changed_packages, name, new_version)
                  /\ name_to_version' = Insert(name_to_version, name, new_version)
                  /\ computed' = [computed EXCEPT ![package.path] = Append(@, new_version)]
                  /\ LoopOn("second")
                  /\ UNCHANGED <<args, manifest, pull_request_md, tags_file, git_tags,
                                 git_log, git_commits, tags_to_create, start, earlier,
                                 fn_in, fn_out>>

\* second loop: a package recorded as changed, or with a dependency recorded
\* as changed, gets a new version; any other package is left alone
DependencyPass ==
    /\ pc = "second"
    /\ LET package == manifest[idx]
           name == get_version_and_name(package_json, package.path)[1]
           version == get_version_and_name(package_json, package.path)[2]
           should_update == \/ name \in DOMAIN changed_packages
                            \/ has_dependency_changes(package, changed_packages)
           semver_target == IF name \in DOMAIN changed_packages
                            THEN determine_semver_target(git_tags, git_log, name, version,
                                                         args.environment)
                            ELSE "Patch"
       IN  IF should_update
           THEN \E new_version \in {increase_version(version, semver_target,
                                                     args.environment)} :
                IF new_version = PANIC THEN Abort
                ELSE
                /\ package_json' = update_package(package_json, package.path, new_version,
                                                  args.dry_run)
                /\ extra_file' = increase_extra_files_version(extra_file,
                                     package.extra_files, new_version, args.dry_run)
                /\ changed_packages' = Insert(changed_packages, name, new_version)
                /\ computed' = [computed EXCEPT ![package.path] = Append(@, new_version)]
                /\ LoopOn("finish")
                /\ UNCHANGED <<args, manifest, changelog_md, pull_request_md, tags_file,
                               git_tags, git_log, git_commits, name_to_version,
                               pull_request_content, tags_to_create, start, earlier,
                               fn_in, fn_out>>
           ELSE /\ LoopOn("finish")
                /\ UNCHANGED <<args, manifest, package_json, changelog_md, extra_file,
                               pull_request_md, tags_file, git_tags, git_log, git_commits,
                               changed_packages, name_to_version, pull_request_content,
                               tags_to_create, computed, start, earlier, fn_in, fn_out>>

\* writeln!(file, "{}", tag) for each tag
TagLines(tags) == Join([i \in 1..Len(tags) |-> tags[i] \o NL], <<>>)

\* --tag: tags_to_create.txt is created or truncated, then written
TagSummary ==
    /\ pc = "finish"
    /\ args.tag
    /\ tags_file' = TagLines(tags_to_create)
    /\ pc' = "done"
    /\ UNCHANGED <<args, manifest, package_json, changelog_md, extra_file,
                   pull_request_md, git_tags, git_log, git_commits, idx,
                   changed_packages, name_to_version, pull_request_content,
                   tags_to_create, computed, start, earlier, fn_in, fn_out>>

COMMIT_HEAD == <<"c", "h", "o", "r", "e", "(", "r", "e", "l", "e", "a", "s", "e", ")", ":", " ", "b", "u", "m", "p", " ", "p", "a", "c", "k", "a", "g", "e", "s">>

COMMIT_ITEM == <<"-", " ">>

COLON_SP == <<":", " ">>

\* the commit message for one order of iteration over name_to_version
RECURSIVE CommitMessage(_, _)
CommitMessage(map, order) ==
    IF order = <<>> THEN <<>>
    ELSE COMMIT_ITEM \o Head(order) \o COLON_SP \o map[Head(order)]
             \o CommitMessage(map, Tail(order))

\* the orders a HashMap may be iterated in
Orders(map) ==
    {o \in [1..Cardinality(DOMAIN map) -> DOMAIN map] :
        \A i, j \in DOMAIN o : i # j => o[i] # o[j]}

\* whether git add . finds something to commit
Dirty ==
    \/ package_json # start.package_json
    \/ changelog_md # start.changelog_md
    \/ extra_file # start.extra_file

\* the commit, then pull_request_content.md
CommitChanges ==
    /\ pc = "finish"
    /\ ~args.tag
    /\ IF ~args.dry_run
       THEN /\ \E order \in Orders(name_to_version) :
                 git_commits' =
                     IF Dirty
                     THEN Append(git_commits,
                                 COMMIT_HEAD \o CommitMessage(name_to_version, order))
                     ELSE git_commits
            /\ pull_request_md' = pull_request_content
       ELSE UNCHANGED <<git_commits, pull_request_md>>
    /\ pc' = "done"
    /\ UNCHANGED <<args, manifest, package_json, changelog_md, extra_file, tags_file,
                   git_tags, git_log, idx, changed_packages, name_to_version,
                   pull_request_content, tags_to_create, computed, start, earlier,
                   fn_in, fn_out>>

Next ==
    \/ TagPackage
    \/ SkipPackage
    \/ ReleasePackage
    \/ DependencyPass
    \/ TagSummary
    \/ CommitChanges

Spec == Init /\ [][Next]_vars

(***************************************************************************)
(* A dry run followed by a real run on the repository it leaves.           *)
(***************************************************************************)
InitDry ==
    /\ InitRun(FALSE, Scenarios)
    /\ args.dry_run

\* the program is started again, without --dry-run
Relaunch ==
    /\ pc = "done"
    /\ args.dry_run
    /\ earlier = <<>>
    /\ earlier' = <<[args |-> args, computed |-> computed]>>
    /\ args' = [args EXCEPT !.dry_run = FALSE]
    /\ pc' = "first"
    /\ idx' = 1
    /\ changed_packages' = <<>>
    /\ name_to_version' = <<>>
    /\ pull_request_content' = <<>>
    /\ tags_to_create' = <<>>
    /\ computed' = [p \in Paths |-> <<>>]
    /\ start' = Files
    /\ UNCHANGED <<manifest, package_json, changelog_md, extra_file, pull_request_md,
                   tags_file, git_tags, git_log, git_commits, fn_in, fn_out>>

\* without --tag the two actions of the tag mode are never enabled
NextDryThenReal ==
    \/ SkipPackage
    \/ ReleasePackage
    \/ DependencyPass
    \/ CommitChanges
    \/ Relaunch

SpecDryThenReal == InitDry /\ [][NextDryThenReal]_vars

(***************************************************************************)
(* Properties of main.                                                     *)
(***************************************************************************)
\* the version of a package when main started
StartVersion(p) == start.package_json[p].version

\* the first pass recorded the package: it had changes since its latest tag
DirectlyChanged(p) == package_json[p].name \in DOMAIN name_to_version

\* the bump the first pass reads from the commits of a package
CommitBump(p) == Classify(EmptyChangelog, git_log[p]).semver_target

\* C1 as stated: at the end of a real production release run, the version on
\* disk of every directly changed package is the version it had at the
\* start increased once, by the bump of its commits.
C1_Original ==
    (pc = "done" /\ ~args.tag /\ ~args.dry_run /\ args.environment = "production")
        => \A p \in Paths :
               DirectlyChanged(p)
                   => package_json[p].version =
                          increase_version(StartVersion(p), CommitBump(p), args.environment)

\* C2: all along a release run with --dry-run, the package.json files, the
\* changelogs and the extra files are as they were at the start, there is no
\* pull_request_content.md and no commit.
C2_DryRunFrame ==
    (args.dry_run /\ ~args.tag)
        => /\ package_json = start.package_json
           /\ changelog_md = start.changelog_md
           /\ extra_file = start.extra_file
           /\ pull_request_md = None
           /\ git_commits = <<>>

C2_Witness ==
    /\ pc = "done"
    /\ args.dry_run
    /\ ~args.tag
    /\ \E p, q \in Paths :
           /\ HasExtra(p) /\ DirectlyChanged(p)
           /\ HasChangelog(q) /\ DirectlyChanged(q)
           /\ Len(computed[q]) = 2

\* C3 as stated: all along a run with --dry-run and --tag, the tags and the
\* files, tags_to_create.txt included, are as they were at the start.
C3_Original ==
    (args.dry_run /\ args.tag) => Files = start

\* C4 as stated: the versions a dry run computed for each package, in the
\* first pass and in the dependency pass, are the versions the real run
\* started next on the same repository assigns.
C4_Original ==
    (pc = "done" /\ earlier # <<>>) => computed = earlier[1].computed

\* C5 as stated: at the end of a release run, a package that is not directly
\* changed and whose dependencies were all bumped by the dependency pass
\* only, none of them recorded by the first pass, has not been bumped.
C5_Original ==
    (pc = "done" /\ ~args.tag)
        => \A p \in Paths :
               (/\ ~DirectlyChanged(p)
                /\ manifest[p].dependencies # {}
                /\ \A dep \in manifest[p].dependencies :
                       dep \in DOMAIN changed_packages /\ dep \notin DOMAIN name_to_version)
                   => computed[p] = <<>>

\* the version of the package the dependency pass is at, increased by a patch
PatchOfCurrent == increase_version(package_json[idx].version, "Patch", args.environment)

\* C6: when the dependency pass visits a package that the first pass did not
\* record and that declares a dependency recorded in changed_packages, the
\* package is recorded in changed_packages with its version increased by a
\* patch, and unless the run is a dry run this is its version on disk.
C6_DependencyPatch ==
    [][(/\ pc = "second"
        /\ package_json[idx].name \notin DOMAIN changed_packages
        /\ \E dep \in manifest[idx].dependencies : dep \in DOMAIN changed_packages)
           => /\ package_json[idx].name \in DOMAIN changed_packages'
              /\ changed_packages'[package_json[idx].name] = PatchOfCurrent
              /\ ~args.dry_run => package_json'[idx].version = PatchOfCurrent]_vars

C6_Witness ==
    /\ pc = "done"
    /\ ~args.tag
    /\ ~args.dry_run
    /\ \E p \in Paths :
           /\ ~DirectlyChanged(p)
           /\ \E dep \in manifest[p].dependencies : dep \in DOMAIN name_to_version
           /\ computed[p] = <<increase_version(StartVersion(p), "Patch", args.environment)>>
           /\ package_json[p].version = computed[p][1]
           /\ changed_packages[package_json[p].name] = computed[p][1]

(***************************************************************************)
(* Inputs of the pure functions.                                           *)
(***************************************************************************)
Nums == 0..MaxNum

\* a version without prerelease marker
Release(a, b, c) == Dotted(a, b, c)

\* a version with a bare marker
Bare(a, b, c) == Dotted(a, b, c) \o <<"-">> \o BETA

\* a version with a marker and a counter
Counted(a, b, c, n) == Dotted(a, b, c) \o <<"-">> \o BETA \o <<".">> \o FormatU32(n)

ReleaseVersions == {Release(a, b, c) : a \in Nums, b \in Nums, c \in Nums}

BareVersions == {Bare(a, b, c) : a \in Nums, b \in Nums, c \in Nums}

CountedVersions ==
    UNION {{Counted(a, b, c, n) : a \in Nums, b \in Nums} : c \in Nums, n \in Nums}

\* the literals of the unit tests and of the documentation
V_1_2_3 == <<"1", ".", "2", ".", "3">>

V_1_2_3_beta == <<"1", ".", "2", ".", "3", "-", "b", "e", "t", "a">>

V_1_3_0_beta_1 == <<"1", ".", "3", ".", "0", "-", "b", "e", "t", "a", ".", "1">>

V_1_3_0_beta_2 == <<"1", ".", "3", ".", "0", "-", "b", "e", "t", "a", ".", "2">>

V_1_3_0 == <<"1", ".", "3", ".", "0">>

\* versions whose increase carries into a second digit
V_9_9_9 == <<"9", ".", "9", ".", "9">>

V_1_19_9_beta_9 == <<"1", ".", "1", "9", ".", "9", "-", "b", "e", "t", "a", ".", "9">>

VersionInputs ==
    ReleaseVersions \cup BareVersions \cup CountedVersions
        \cup {V_1_2_3, V_1_2_3_beta, V_1_2_3_beta_1, V_9_9_9, V_1_19_9_beta_9}

(***************************************************************************)
(* increase_version applied to enumerated inputs.                          *)
(***************************************************************************)
\* main is not running while a function is applied on its own
MainIdle ==
    /\ args = None
    /\ manifest = <<>>
    /\ package_json = <<>>
    /\ changelog_md = <<>>
    /\ extra_file = <<>>
    /\ pull_request_md = None
    /\ tags_file = None
    /\ git_tags = {}
    /\ git_log = <<>>
    /\ git_commits = <<>>
    /\ pc = "idle"
    /\ idx = 0
    /\ changed_packages = <<>>
    /\ name_to_version = <<>>
    /\ pull_request_content = <<>>
    /\ tags_to_create = <<>>
    /\ computed = <<>>
    /\ start = None
    /\ earlier = <<>>

MainVars == <<args, manifest, package_json, changelog_md, extra_file, pull_request_md,
              tags_file, git_tags, git_log, git_commits, pc, idx, changed_packages,
              name_to_version, pull_request_content, tags_to_create, computed, start,
              earlier>>

InitIncrease ==
    /\ MainIdle
    /\ fn_in \in [version : VersionInputs, semver : Semver, environment : Environments]
    /\ fn_out = None

ApplyIncrease ==
    /\ fn_out = None
    /\ fn_out' = increase_version(fn_in.version, fn_in.semver, fn_in.environment)
    /\ UNCHANGED <<fn_in, MainVars>>

NextIncrease == ApplyIncrease

SpecIncrease == InitIncrease /\ [][NextIncrease]_vars

(***************************************************************************)
(* Properties of increase_version.                                         *)
(***************************************************************************)
\* the call of increase_version has returned
Increased == fn_out # None

HasMarker(v) == \E i \in 1..Len(v) : v[i] = "-"

\* the release numbers of a well-formed version
ReleaseNums(v) ==
    LET nums == Split(Split(v, "-")[1], ".")
    IN  <<ParseU32(nums[1]), ParseU32(nums[2]), ParseU32(nums[3])>>

\* whether v is three dot-separated numbers followed by nothing or a marker
WellFormed(v) ==
    /\ v # PANIC
    /\ Len(Split(Split(v, "-")[1], ".")) = 3
    /\ \A i \in 1..3 : ReleaseNums(v)[i] >= 0

\* the prerelease part of a version that has one, split at its dots
MarkerParts(v) == Split(Split(v, "-")[2], ".")

\* the numbers a bump of the given kind makes of <<major, minor, patch>>
BumpedNums(n, semver) ==
    CASE semver = "Patch" -> <<n[1], n[2], n[3] + 1>>
      [] semver = "Minor" -> <<n[1], n[2] + 1, 0>>
      [] semver = "Major" -> <<n[1] + 1, 0, 0>>

\* C7: on production, a version without prerelease marker has exactly the
\* component of the bump incremented, the lower-order ones reset to 0, the
\* higher-order ones kept, and the result has no prerelease marker.
C7_ProductionBump ==
    (Increased /\ fn_in.environment = "production" /\ ~HasMarker(fn_in.version))
        => /\ WellFormed(fn_out)
           /\ ~HasMarker(fn_out)
           /\ ReleaseNums(fn_out) = BumpedNums(ReleaseNums(fn_in.version), fn_in.semver)

C7_Witness ==
    /\ Increased
    /\ fn_in = [version |-> V_1_2_3, semver |-> "Minor", environment |-> "production"]
    /\ fn_out = V_1_3_0

\* C8: on production, a version with a prerelease marker (with or without
\* counter) comes back with the same release numbers and no marker, whatever
\* the bump.
C8_ProductionPromotes ==
    (Increased /\ fn_in.environment = "production" /\ HasMarker(fn_in.version))
        => /\ WellFormed(fn_out)
           /\ ~HasMarker(fn_out)
           /\ ReleaseNums(fn_out) = ReleaseNums(fn_in.version)
           /\ fn_out = Split(fn_in.version, "-")[1]

C8_Witness ==
    /\ Increased
    /\ fn_in = [version |-> V_1_2_3_beta_1, semver |-> "Major", environment |-> "production"]
    /\ fn_out = V_1_2_3

\* C9: on another channel the bump is applied to the release numbers, and the
\* marker of the result is beta.<n+1> for an input marker with counter n,
\* beta.1 for an input marker without counter, bare beta for no input marker.
C9_StagingMarker ==
    (Increased /\ fn_in.environment # "production")
        => /\ WellFormed(fn_out)
           /\ ReleaseNums(fn_out) = BumpedNums(ReleaseNums(fn_in.version), fn_in.semver)
           /\ Len(Split(fn_out, "-")) = 2
           /\ IF ~HasMarker(fn_in.version) THEN MarkerParts(fn_out) = <<BETA>>
              ELSE IF Len(MarkerParts(fn_in.version)) = 1
                   THEN MarkerParts(fn_out) = <<BETA, <<"1">> >>
              ELSE MarkerParts(fn_out) =
                       <<BETA, FormatU32(ParseU32(MarkerParts(fn_in.version)[2]) + 1)>>

C9_Witness ==
    /\ Increased
    /\ fn_in = [version |-> V_1_2_3_beta, semver |-> "Minor", environment |-> "staging"]
    /\ fn_out = V_1_3_0_beta_1

\* C10 as stated: increase_version("1.2.3-beta.1", Minor, "staging") is
\* "1.3.0-beta.1".
C10_Original ==
    (Increased /\ fn_in = [version |-> V_1_2_3_beta_1, semver |-> "Minor",
                           environment |-> "staging"])
        => fn_out = V_1_3_0_beta_1

\* C10 amended: increase_version("1.2.3-beta.1", Minor, "staging") is
\* "1.3.0-beta.2", the counter 1 of the input advanced to 2.
C10_CounterAdvances ==
    (Increased /\ fn_in = [version |-> V_1_2_3_beta_1, semver |-> "Minor",
                           environment |-> "staging"])
        => fn_out = V_1_3_0_beta_2

C10_Witness ==
    /\ Increased
    /\ fn_in = [version |-> V_1_2_3_beta_1, semver |-> "Minor", environment |-> "staging"]
    /\ fn_out = V_1_3_0_beta_2

\* C27: the version increase_version returns compares Greater than the
\* version it was given, for every bump and both channels.
C27_StrictlyIncreasing ==
    Increased => semver_compare(fn_out, fn_in.version) = "Greater"

\* a release bumped on the staging channel: the result has a marker and
\* still compares Greater
C27_Witness ==
    /\ Increased
    /\ fn_in.environment = "staging"
    /\ fn_in.semver = "Patch"
    /\ ~HasMarker(fn_in.version)
    /\ HasMarker(fn_out)

(***************************************************************************)
(* get_latest_tag applied to enumerated inputs.                            *)
(***************************************************************************)
V_1_0_1 == <<"1", ".", "0", ".", "1">>

V_1_0_1_beta == <<"1", ".", "0", ".", "1", "-", "b", "e", "t", "a">>

V_1_1_0_beta_1 == <<"1", ".", "1", ".", "0", "-", "b", "e", "t", "a", ".", "1">>

\* a package whose name holds the text of the production filter
PKG_BETA == <<"p", "k", "g", "-", "b", "e", "t", "a">>

\* a tag of another package
FOREIGN_TAG == <<"p", "k", "g", "-", "b", "-", "v", "1", ".", "0", ".", "0">>

\* the versions of the tags of test_get_latest_tag
TagVersions == {V_1_0_0, V_1_0_1_beta, V_1_0_1, V_1_1_0_beta_1}

\* the tags a repository may hold when get_latest_tag is called for a name
TagUniverse(name) == {TagName(name, v) : v \in TagVersions} \cup {FOREIGN_TAG}

InitLatestTag ==
    /\ MainIdle
    /\ \E name \in {PkgName(1), PKG_BETA} :
           fn_in \in [tags : SUBSET TagUniverse(name), name : {name},
                      version : {V_1_0_0, V_1_0_1_beta}, environment : Environments]
    /\ fn_out = None

ApplyLatestTag ==
    /\ fn_out = None
    /\ fn_out' = get_latest_tag(fn_in.tags, fn_in.name, fn_in.version, fn_in.environment)
    /\ UNCHANGED <<fn_in, MainVars>>

SpecLatestTag == InitLatestTag /\ [][ApplyLatestTag]_vars

(***************************************************************************)
(* Properties of get_latest_tag.                                           *)
(***************************************************************************)
\* the function applied on its own has returned
Returned == fn_out # None

\* the tags of the package of a call: those that start with <name>-v
ListedTags(in) == {t \in in.tags : StartsWith(t, in.name \o TAG_INFIX)}

\* the version of a tag of the package: what follows <name>-v
TagVersion(in, t) == From(t, Len(in.name) + Len(TAG_INFIX) + 1)

\* the tags of the package whose version has no prerelease suffix
PlainTags(in) == {t \in ListedTags(in) : ~HasMarker(TagVersion(in, t))}

\* C11 as stated: on production the result is no existing tag whose version
\* has a prerelease marker, and since no tag without a prerelease suffix is
\* discarded, the result is one of those tags whenever there is one.
C11_Original ==
    (Returned /\ fn_in.environment = "production")
        => /\ fn_out \in fn_in.tags => ~HasMarker(TagVersion(fn_in, fn_out))
           /\ PlainTags(fn_in) # {} => fn_out \in PlainTags(fn_in)

\* the tags of the package that the filter of the channel leaves
RemainingTags(in) ==
    {t \in ListedTags(in) : in.environment = "production" => ~Contains(t, BETA_MARK)}

\* C12: the result is one of the tags that remain after the filter of the
\* channel, and no remaining tag compares Greater than it; when none
\* remains the result is <name>-v<version>.
C12_LatestIsMaximal ==
    Returned
        => IF RemainingTags(fn_in) = {} THEN fn_out = TagName(fn_in.name, fn_in.version)
           ELSE /\ fn_out \in RemainingTags(fn_in)
                /\ \A t \in RemainingTags(fn_in) :
                       semver_compare(TagVersion(fn_in, t), TagVersion(fn_in, fn_out))
                           # "Greater"

C12_Witness ==
    /\ Returned
    /\ fn_in.name = PkgName(1)
    /\ fn_in.environment = "staging"
    /\ fn_in.tags = TagUniverse(PkgName(1))
    /\ fn_out = TagName(PkgName(1), V_1_1_0_beta_1)

(***************************************************************************)
(* get_new_changelog and update_changelog applied to enumerated inputs.    *)
(***************************************************************************)
ENTRY_F1 == <<"-", " ", "f", "1", "\n">>

ENTRY_F2 == <<"-", " ", "f", "2", "\n">>

ENTRY_X1 == <<"-", " ", "x", "1", "\n">>

ENTRY_P1 == <<"-", " ", "p", "1", "\n">>

ENTRY_SEE == <<"-", " ", "s", "e", "e", " ">>

ENTRY_B1 == <<"-", " ", "b", "1", "\n">>

\* the sections a Changelog may hold: each a sequence of entries, every
\* entry followed by a line feed
ChangelogInputs ==
    [features : {<<>>, ENTRY_F1, ENTRY_F1 \o ENTRY_F2}, fixes : {<<>>, ENTRY_X1},
     perf : {<<>>, ENTRY_P1}, breaking : {<<>>, ENTRY_B1}]

\* an existing CHANGELOG.md of the package pkg-a
OLD_CHANGELOG == H1 \o PkgName(1) \o NL \o H2_VERSION \o V_1_0_0 \o NL \o H3_FIXES \o ENTRY_X1 \o NL

\* an existing CHANGELOG.md in which the title line comes a second time
TWICE_CHANGELOG == OLD_CHANGELOG \o H1 \o PkgName(1) \o NL \o ENTRY_F1

\* an existing CHANGELOG.md with an entry that ends with the text of the title
MENTION_CHANGELOG == OLD_CHANGELOG \o ENTRY_SEE \o H1 \o PkgName(1) \o NL

InitChangelog ==
    /\ MainIdle
    /\ fn_in \in [name : {PkgName(1)}, new_version : {V_1_0_1},
                  changelog : ChangelogInputs,
                  current : {None, OLD_CHANGELOG, TWICE_CHANGELOG, MENTION_CHANGELOG},
                  is_dry_run : BOOLEAN]
    /\ fn_out = None

\* main calls get_new_changelog ...
ApplyRender ==
    /\ fn_out = None
    /\ fn_out' = <<get_new_changelog(fn_in.name, fn_in.new_version, fn_in.changelog),
                  None>>
    /\ UNCHANGED <<fn_in, MainVars>>

\* ... and hands its result to update_changelog
ApplyMerge ==
    /\ Len(fn_out) = 2
    /\ fn_out[2] = None
    /\ fn_out' = <<fn_out[1],
                   update_changelog(fn_in.current, fn_in.name, fn_out[1],
                                    fn_in.is_dry_run)>>
    /\ UNCHANGED <<fn_in, MainVars>>

NextChangelog == ApplyRender \/ ApplyMerge

SpecChangelog == InitChangelog /\ [][NextChangelog]_vars

(***************************************************************************)
(* Properties of get_new_changelog and update_changelog.                   *)
(***************************************************************************)
\* fn_out is None, then the rendered text and None, then the rendered and
\* the merged text
Rendered == Len(fn_out) = 2

Merged == Len(fn_out) = 2 /\ fn_out[2] # None

H3 == <<"#", "#", "#", " ">>

IsSubHeading(line) == StartsWith(line, H3)

\* a heading block without its line feed, when its section is not empty
HeadingOf(heading, section) ==
    IF section # <<>> THEN <<SubSeq(heading, 1, Len(heading) - 1)>> ELSE <<>>

\* the section right after its heading, when the section is not empty
BlockIn(text, heading, section) == section # <<>> => Contains(text, heading \o section \o NL)

\* the layout of the lines ls of the text rendered for the arguments in
RenderLayout(text, ls, in) ==
    /\ Len(ls) >= 2
    /\ ls[1] = H1 \o in.name
    /\ ls[2] = H2_VERSION \o in.new_version
    /\ SelectSeq(ls, IsSubHeading)
           = HeadingOf(H3_FEATURES, in.changelog.features)
                \o HeadingOf(H3_FIXES, in.changelog.fixes)
                \o HeadingOf(H3_PERF, in.changelog.perf)
    /\ SelectSeq(SubSeq(ls, 3, Len(ls)), LAMBDA l : l # <<>> /\ ~IsSubHeading(l))
           = Lines(in.changelog.features \o in.changelog.fixes \o in.changelog.perf)
    /\ BlockIn(text, H3_FEATURES, in.changelog.features)
    /\ BlockIn(text, H3_FIXES, in.changelog.fixes)
    /\ BlockIn(text, H3_PERF, in.changelog.perf)

\* C13: the rendered text is the title line, the version heading line, then
\* the sub-headings Features, Fixes, Performance of the sections that are
\* not empty, in that order, each followed by its entries; there is no
\* sub-heading for an empty section, and no line comes from the breaking
\* section.
C13_RenderLayout ==
    Rendered => RenderLayout(fn_out[1], Lines(fn_out[1]), fn_in)

C13_Witness ==
    /\ Rendered
    /\ fn_in.changelog.features # <<>>
    /\ fn_in.changelog.fixes = <<>>
    /\ fn_in.changelog.perf # <<>>
    /\ fn_in.changelog.breaking # <<>>

\* the position of the first heading of a version in a text, 0 when absent
HeadingAt(text, version) ==
    IF Occurrences(text, H2_VERSION \o version) = {} THEN 0
    ELSE MinOf(Occurrences(text, H2_VERSION \o version))

\* C14: without an existing body the merged text is the rendered text; with
\* one, the merged text starts with the rendered text, and the heading of
\* the new version comes before the heading of the older version.
C14_MergePrepends ==
    Merged
        => /\ fn_in.current = None => fn_out[2] = fn_out[1]
           /\ fn_in.current # None
                 => /\ StartsWith(fn_out[2], fn_out[1])
                    /\ HeadingAt(fn_out[2], V_1_0_0) # 0
                          => /\ HeadingAt(fn_out[2], fn_in.new_version) # 0
                             /\ HeadingAt(fn_out[2], fn_in.new_version)
                                    < HeadingAt(fn_out[2], V_1_0_0)

C14_Witness ==
    /\ Merged
    /\ fn_in.current # None
    /\ ~fn_in.is_dry_run
    /\ HeadingAt(fn_out[2], V_1_0_0) > Len(fn_out[1])

\* a text without the first occurrence of pat
WithoutFirst(text, pat) ==
    IF Occurrences(text, pat) = {} THEN text
    ELSE SubSeq(text, 1, MinOf(Occurrences(text, pat)) - 1)
             \o From(text, MinOf(Occurrences(text, pat)) + Len(pat))

\* C23 as stated: merged with an existing body, the text is the rendered
\* text followed by the existing body without the first occurrence of the
\* title line; a later title line and a line that ends with the text of the
\* title are kept as they are.
C23_Original ==
    (Merged /\ fn_in.current # None /\ ~fn_in.is_dry_run)
        => fn_out[2] = fn_out[1] \o WithoutFirst(fn_in.current, H1 \o fn_in.name \o NL)

\* C26 as stated: in a dry run update_changelog returns the text that a
\* real run would have written for the same arguments.
C26_Original ==
    (Merged /\ fn_in.is_dry_run)
        => fn_out[2] = update_changelog(fn_in.current, fn_in.name, fn_out[1], FALSE)

\* C26 amended: in a dry run update_changelog returns the rendered text
\* alone, with or without an existing body.
C26_DryRunRenderedOnly ==
    (Merged /\ fn_in.is_dry_run) => fn_out[2] = fn_out[1]

C26_Witness ==
    /\ Merged
    /\ fn_in.is_dry_run
    /\ fn_in.current = OLD_CHANGELOG
    /\ fn_in.changelog.features # <<>>

(***************************************************************************)
(* Properties of main, continued.                                          *)
(***************************************************************************)
\* the tag of the version on disk of the package at position p
CurrentTag(p) == TagName(package_json[manifest[p].path].name, StartVersion(p))

\* in manifest order, the tags of the versions on disk that did not exist
\* when main started and exist now
NewlyCreated ==
    SelectSeq([p \in 1..Len(manifest) |-> CurrentTag(p)],
              LAMBDA t : t \notin start.git_tags /\ t \in git_tags)

\* C15 as stated: when a run in tag mode without dry run is done,
\* tags_to_create.txt holds, one per line and in manifest order, exactly the
\* tags this run created: no tag that existed before and no tag whose
\* creation failed.
C15_Original ==
    (pc = "done" /\ args.tag /\ ~args.dry_run) => tags_file = TagLines(NewlyCreated)

\* C24: in tag mode without dry run, the step of a package whose tag does
\* not exist records the attempt and goes on to the next package of the
\* manifest (to the next part of main after the last one), whether the tag
\* was created or not.
C24_TaggingGoesOn ==
    [][(pc = "first" /\ args.tag /\ ~args.dry_run /\ CurrentTag(idx) \notin git_tags)
          => /\ tags_to_create' = Append(tags_to_create, CurrentTag(idx))
             /\ IF idx < Len(manifest) THEN pc' = "first" /\ idx' = idx + 1
                ELSE pc' = "second" /\ idx' = 1]_vars

\* the creation of a tag failed and the tag of a later package was created
C24_Witness ==
    /\ args.tag
    /\ ~args.dry_run
    /\ \E p, q \in 1..Len(manifest) :
           /\ p < q
           /\ \E i \in 1..Len(tags_to_create) : tags_to_create[i] = CurrentTag(p)
           /\ CurrentTag(p) \notin git_tags
           /\ CurrentTag(q) \in git_tags \ start.git_tags

\* git diff of the package at position p exits with a non-zero status: the
\* tag get_latest_tag resolved is the synthetic one, which names no revision
DiffFails(p) ==
    get_latest_tag(start.git_tags, start.package_json[manifest[p].path].name,
                   StartVersion(p), args.environment) \notin start.git_tags

\* main has gone on after the iteration of the first loop for position p
WentPast(p) == (pc = "first" /\ idx > p) \/ pc \in {"second", "finish", "done"}

\* C16 as stated: when git diff fails for a package the run is aborted
\* there, so main never goes on to a later package or a later step.
C16_Original ==
    ~args.tag => \A p \in 1..Len(manifest) : DiffFails(p) => ~WentPast(p)

\* git diff for the package at position p printed nothing
EmptyDiff(p) ==
    ~GitDiffNonEmpty(start.git_tags, git_log,
                     get_latest_tag(start.git_tags, start.package_json[manifest[p].path].name,
                                    StartVersion(p), args.environment),
                     manifest[p].path)

\* C18: at the end of a release run, a package whose diff since its latest
\* tag was empty and none of whose dependencies is in changed_packages has
\* its package.json, changelog and extra file as they were at the start, and
\* is not in changed_packages.
C18_SkippedUntouched ==
    (pc = "done" /\ ~args.tag)
        => \A p \in 1..Len(manifest) :
               (/\ EmptyDiff(p)
                /\ \A dep \in manifest[p].dependencies : dep \notin DOMAIN changed_packages)
                   => /\ package_json[manifest[p].path] = start.package_json[manifest[p].path]
                      /\ changelog_md[manifest[p].path] = start.changelog_md[manifest[p].path]
                      /\ extra_file[manifest[p].path] = start.extra_file[manifest[p].path]
                      /\ start.package_json[manifest[p].path].name
                             \notin DOMAIN changed_packages

\* a real run in which one package is released while another one, which
\* declares dependencies, none of them changed, is left alone
C18_Witness ==
    /\ pc = "done"
    /\ ~args.tag
    /\ ~args.dry_run
    /\ changed_packages # <<>>
    /\ \E p \in 1..Len(manifest) :
           /\ EmptyDiff(p)
           /\ manifest[p].dependencies # {}
           /\ \A dep \in manifest[p].dependencies : dep \notin DOMAIN changed_packages
           /\ HasChangelog(manifest[p].path)

\* the number of versions the first pass computes for the package at
\* position p: one when its diff is not empty, none when it is skipped
FirstPassCount(p) == IF EmptyDiff(p) THEN 0 ELSE 1

\* the number of versions computed so far for the package at position p
ComputedCount(p) == Len(computed[manifest[p].path])

\* C25: during the first pass the packages before the current one have
\* finished it (skipped or recorded), the others are untouched, and the
\* dependency pass has handled none; during the dependency pass every
\* package has finished the first pass, and the dependency pass has handled
\* only packages before the current one.
C25_TwoPasses ==
    ~args.tag
        => /\ pc = "first"
                => \A p \in 1..Len(manifest) :
                       ComputedCount(p) = IF p < idx THEN FirstPassCount(p) ELSE 0
           /\ pc = "second"
                => \A p \in 1..Len(manifest) :
                       /\ ComputedCount(p) >= FirstPassCount(p)
                       /\ ComputedCount(p) <= FirstPassCount(p) + 1
                       /\ p >= idx => ComputedCount(p) = FirstPassCount(p)

\* the dependency pass is at the second package: it has given the first one
\* a second version, and the third one has the version of the first pass
C25_Witness ==
    /\ ~args.tag
    /\ pc = "second"
    /\ idx = 2
    /\ ComputedCount(1) = 2
    /\ ComputedCount(Len(manifest)) = 1

\* the message of the commit of the run, empty when there was none
LastMessage == IF git_commits = <<>> THEN <<>> ELSE git_commits[Len(git_commits)]

\* the item of the commit message for the package at position p
ItemHead(p) == COMMIT_ITEM \o package_json[manifest[p].path].name \o COLON_SP

\* C29 as stated: at the end of a real release run, the commit message has
\* an item for every package whose version on disk was changed by the run,
\* with the version that is on disk, and no item for any other package.
C29_Original ==
    (pc = "done" /\ ~args.tag /\ ~args.dry_run)
        => \A p \in 1..Len(manifest) :
               IF package_json[manifest[p].path].version # StartVersion(p)
               THEN Contains(LastMessage,
                             ItemHead(p) \o package_json[manifest[p].path].version)
               ELSE ~Contains(LastMessage, ItemHead(p))

(***************************************************************************)
(* The rewriting of an extra file applied to enumerated inputs.            *)
(***************************************************************************)
\* largest number of lines of an enumerated extra file
MaxLines == 2

QUOTE_END == <<"'", ";">>

OTHER_TEXT == <<"o", "t", "h", "e", "r">>

SP == <<" ">>

CRLF == <<"\r", "\n">>

\* a line of an extra file: an assignment of a version, or some other text,
\* followed or not by the marker comment
LineInputs == [version : {None, V_1_0_0, V_1_0_1_beta, V_1_1_0_beta_1}, marker : BOOLEAN]

\* the text of a line
LineText(l) ==
    (IF l.version = None THEN OTHER_TEXT ELSE EXTRA_HEAD \o l.version \o QUOTE_END)
        \o (IF l.marker THEN SP \o MARKER ELSE <<>>)

\* the contents of a file: its lines separated by eol, with or without a
\* terminator after the last line
FileText(lines, eol, terminated) ==
    Join([i \in 1..Len(lines) |-> LineText(lines[i])], eol)
        \o (IF terminated THEN eol ELSE <<>>)

InitExtra ==
    /\ MainIdle
    /\ \E n \in 1..MaxLines :
           fn_in \in [lines : [1..n -> LineInputs], eol : {NL, CRLF},
                      terminated : BOOLEAN, new_version : {V_1_0_1, V_1_2_3_beta_1}]
    /\ fn_out = None

ApplyExtra ==
    /\ fn_out = None
    /\ fn_out' = ExtraContents(FileText(fn_in.lines, fn_in.eol, fn_in.terminated),
                               fn_in.new_version)
    /\ UNCHANGED <<fn_in, MainVars>>

SpecExtra == InitExtra /\ [][ApplyExtra]_vars

(***************************************************************************)
(* Properties of the rewriting of an extra file.                           *)
(***************************************************************************)
\* the lines with the version of every line that has the marker replaced
WithVersion(lines, new_version) ==
    [i \in 1..Len(lines) |->
        IF lines[i].marker /\ lines[i].version # None
        THEN [lines[i] EXCEPT !.version = new_version]
        ELSE lines[i]]

\* C17 as stated: the file written is the file read with the version of
\* every line that has the marker replaced by the new version, every other
\* line as it was, and a line terminator at the end exactly when there was
\* one.
C17_Original ==
    Returned
        => fn_out = FileText(WithVersion(fn_in.lines, fn_in.new_version), fn_in.eol,
                             fn_in.terminated)

(***************************************************************************)
(* semver_compare applied to enumerated inputs.                            *)
(***************************************************************************)
V_1_10_0 == <<"1", ".", "1", "0", ".", "0">>

V_1_2_3_beta_10 == <<"1", ".", "2", ".", "3", "-", "b", "e", "t", "a", ".", "1", "0">>

\* versions every enumerated version is compared with, in both orders: the
\* literals of test_semver_compare and versions with numbers of two digits
CompareWith ==
    {V_1_0_0, V_1_0_1, V_1_0_1_beta, V_1_2_3, V_1_2_3_beta, V_1_2_3_beta_1,
     V_1_2_3_beta_10, V_1_10_0, V_1_19_9_beta_9}

InitCompare ==
    /\ MainIdle
    /\ \E x \in VersionInputs \cup CompareWith, y \in CompareWith :
           fn_in \in {[a |-> x, b |-> y], [a |-> y, b |-> x]}
    /\ fn_out = None

ApplyCompare ==
    /\ fn_out = None
    /\ fn_out' = <<semver_compare(fn_in.a, fn_in.b)>>
    /\ UNCHANGED <<fn_in, MainVars>>

SpecCompare == InitCompare /\ [][ApplyCompare]_vars

(***************************************************************************)
(* Properties of semver_compare.                                           *)
(***************************************************************************)
\* the ordering that was returned
Compared == fn_out # None

\* the order of two integers
IntOrder(m, n) == IF m < n THEN "Less" ELSE IF m > n THEN "Greater" ELSE "Equal"

\* the order of two triples of release numbers: the first component that
\* differs decides
ReleaseOrder(m, n) ==
    IF m[1] # n[1] THEN IntOrder(m[1], n[1])
    ELSE IF m[2] # n[2] THEN IntOrder(m[2], n[2])
    ELSE IntOrder(m[3], n[3])

\* the counter that ends the suffix of a version with a marker, 0 when the
\* marker is bare
CounterOf(parts) == IF Len(parts) = 1 THEN 0 ELSE ParseU32(parts[Len(parts)])

\* the order of two versions with the same release numbers
SuffixOrder(a, b) ==
    IF ~HasMarker(a) /\ ~HasMarker(b) THEN "Equal"
    ELSE IF ~HasMarker(a) THEN "Greater"
    ELSE IF ~HasMarker(b) THEN "Less"
    ELSE IntOrder(CounterOf(MarkerParts(a)), CounterOf(MarkerParts(b)))

\* C19: the ordering returned for two versions is that of their major, then
\* minor, then patch numbers as integers; when these are equal a version
\* without a suffix is Greater than one with a suffix, two versions with a
\* suffix are ordered by their counters, a missing counter being 0, and two
\* versions without a suffix are Equal.
C19_CompareOrder ==
    Compared
        => fn_out[1] = IF ReleaseNums(fn_in.a) # ReleaseNums(fn_in.b)
                       THEN ReleaseOrder(ReleaseNums(fn_in.a), ReleaseNums(fn_in.b))
                       ELSE SuffixOrder(fn_in.a, fn_in.b)

\* a bare marker against a counter of two digits on the same release numbers
C19_Witness ==
    /\ Compared
    /\ fn_in.a = V_1_2_3_beta_10
    /\ fn_in.b = V_1_2_3_beta
    /\ fn_out = <<"Greater">>

(***************************************************************************)
(* The classification loop of main applied to enumerated commit logs.      *)
(***************************************************************************)
\* largest number of lines of an enumerated commit log
MaxCommits == 3

LINE_PERF == <<"h", "3", " ", "p", "e", "r", "f", "(", "z", ")", ":", " ", "s", "p", "e", "e", "d", " ", "u", "p">>

LINE_BREAKING_FEAT == <<"h", "4", " ", "!", "f", "e", "a", "t", "(", "a", "p", "i", ")", ":", " ", "d", "r", "o", "p", " ", "t", "h", "i", "n", "g">>

LINE_CHORE == <<"h", "5", " ", "c", "h", "o", "r", "e", ":", " ", "t", "i", "d", "y">>

\* the one-line commits a log is made of
CommitLines == {LINE_FEAT, LINE_FIX, LINE_PERF, LINE_BREAKING, LINE_BREAKING_FEAT, LINE_CHORE}

InitClassify ==
    /\ MainIdle
    /\ \E n \in 0..MaxCommits : fn_in \in [1..n -> CommitLines]
    /\ fn_out = None

ApplyClassify ==
    /\ fn_out = None
    /\ fn_out' = <<Classify(EmptyChangelog, fn_in).semver_target,
                   Classify(EmptyChangelog, fn_in),
                   DetermineLoop(fn_in, "Patch")>>
    /\ UNCHANGED <<fn_in, MainVars>>

SpecClassify == InitClassify /\ [][ApplyClassify]_vars

(***************************************************************************)
(* Properties of the classification loop.                                  *)
(***************************************************************************)
Classified == fn_out # None

\* Patch < Minor < Major
Rank(semver) == CASE semver = "Patch" -> 1 [] semver = "Minor" -> 2 [] semver = "Major" -> 3

\* the candidate of a line: the rank of the bump its type asks for, 0 for a
\* line of no type
Candidate(line) ==
    CASE line = LINE_FEAT -> Rank("Minor")
      [] line \in {LINE_FIX, LINE_PERF} -> Rank("Patch")
      [] line \in {LINE_BREAKING, LINE_BREAKING_FEAT} -> Rank("Major")
      [] OTHER -> 0

\* the greatest of the candidates of the lines, Patch when there is none
MaxCandidate(lines) ==
    CHOOSE r \in Rank("Patch")..Rank("Major") :
        /\ r = Rank("Patch") \/ \E i \in 1..Len(lines) : Candidate(lines[i]) = r
        /\ \A i \in 1..Len(lines) : Candidate(lines[i]) <= r

\* the orders the lines can be put in
Reorderings(lines) ==
    {[i \in 1..Len(lines) |-> lines[f[i]]] :
        f \in {g \in [1..Len(lines) -> 1..Len(lines)] :
                  \A i, j \in 1..Len(lines) : g[i] = g[j] => i = j}}

\* C20: the bump of a commit log is the greatest of the candidates of its
\* lines (feat: Minor; fix, perf: Patch; !feat, !fix: Major), Patch when no
\* line has a candidate, and every reordering of the log gives the same
\* bump.
C20_BumpIsMax ==
    Classified
        => /\ Rank(fn_out[1]) = MaxCandidate(fn_in)
           /\ \A lines \in Reorderings(fn_in) :
                  Classify(EmptyChangelog, lines).semver_target = fn_out[1]

\* the breaking change comes first and lower candidates follow
C20_Witness ==
    /\ Classified
    /\ fn_in = <<LINE_BREAKING, LINE_FEAT, LINE_FIX>>
    /\ fn_out[1] = "Major"

\* the lines whose type puts them in a section of the changelog
LinesOf(section) ==
    CASE section = "features" -> {LINE_FEAT, LINE_BREAKING_FEAT}
      [] section = "fixes" -> {LINE_FIX, LINE_BREAKING}
      [] section = "perf" -> {LINE_PERF}
      [] section = "breaking" -> {LINE_BREAKING, LINE_BREAKING_FEAT}

\* the entries, each followed by a line feed, of the lines of a log that
\* belong to a section, in the order of the log
EntriesOf(lines, section) ==
    Join([i \in 1..Len(SelectSeq(lines, LAMBDA l : l \in LinesOf(section))) |->
              format_commit_message(SelectSeq(lines, LAMBDA l : l \in LinesOf(section))[i])
                  \o NL],
         <<>>)

\* C21: every section of the changelog holds, in the order of the log, the
\* entries of exactly the lines that contain its marker; a line with several
\* markers (!fix( holds fix( too, !feat( holds feat() is in each of their
\* sections.
C21_Buckets ==
    Classified
        => /\ fn_out[2].features = EntriesOf(fn_in, "features")
           /\ fn_out[2].fixes = EntriesOf(fn_in, "fixes")
           /\ fn_out[2].perf = EntriesOf(fn_in, "perf")
           /\ fn_out[2].breaking = EntriesOf(fn_in, "breaking")

\* a breaking fix before a fix: fixes holds both, breaking the first one
C21_Witness ==
    /\ Classified
    /\ fn_in = <<LINE_BREAKING, LINE_FIX, LINE_FEAT>>
    /\ fn_out[2].fixes = format_commit_message(LINE_BREAKING) \o NL
                             \o format_commit_message(LINE_FIX) \o NL
    /\ fn_out[2].breaking = format_commit_message(LINE_BREAKING) \o NL

(***************************************************************************)
(* format_commit_message applied to enumerated commit lines.               *)
(***************************************************************************)
HASH_LONG == <<"1", "9", "5", "e", "a", "b", "b", "1", "5">>

HASH_SHORT == <<"0", "a", "1", "b">>

HASH_H1 == <<"h", "1">>

TYPE_FEAT == <<"f", "e", "a", "t">>

TYPE_FIX == <<"f", "i", "x">>

TYPE_PERF == <<"p", "e", "r", "f">>

SCOPE_X == <<"x">>

SCOPE_WORDS == <<"q", "u", "o", "t", "e", " ", "r", "e", "q", "u", "e", "s", "t", " ", "l", "i", "n", "e">>

DESC_PLAIN == <<"a", "d", "d", " ", "t", "h", "i", "n", "g">>

DESC_PUNCT == <<"f", "i", "x", " ", "(", "a", "l", "l", ")", ":", " ", "t", "h", "e", " ", "U", "X">>

\* a commit line piece by piece: the abbreviated hash git prints (or the
\* placeholder of the documented scenarios), the type with or without `!`,
\* the scope (None for a line without one), and the description
CommitInputs ==
    [hash : {HASH_LONG, HASH_SHORT, HASH_H1}, bang : BOOLEAN,
     type : {TYPE_FEAT, TYPE_FIX, TYPE_PERF}, scope : {None, SCOPE_X, SCOPE_WORDS},
     description : {DESC_PLAIN, DESC_PUNCT}]

\* the line git log --oneline prints for the pieces
CommitText(c) ==
    c.hash \o SP \o (IF c.bang THEN <<"!">> ELSE <<>>) \o c.type
        \o (IF c.scope = None THEN <<>> ELSE <<"(">> \o c.scope \o <<")">>)
        \o COLON_SP \o c.description

InitFormat ==
    /\ MainIdle
    /\ fn_in \in CommitInputs
    /\ fn_out = None

ApplyFormat ==
    /\ fn_out = None
    /\ fn_out' = format_commit_message(CommitText(fn_in))
    /\ UNCHANGED <<fn_in, MainVars>>

SpecFormat == InitFormat /\ [][ApplyFormat]_vars

(***************************************************************************)
(* Properties of format_commit_message.                                    *)
(***************************************************************************)
\* C22 as stated: a line <hash> <type>(<scope>): <description>, the type
\* with or without `!`, is rendered **<scope>**: <description>, and every
\* other line is rendered as it is.
C22_Original ==
    Returned
        => fn_out = IF fn_in.scope # None
                    THEN STARS \o fn_in.scope \o STARS_COLON \o fn_in.description
                    ELSE CommitText(fn_in)

\* C28: for every commit log, the loop of determine_semver_target returns
\* the bump the classification loop of main ends with on the same log.
C28_SameBump ==
    Classified => fn_out[3] = fn_out[1]

\* a log where the breaking change cuts the loop short before a later line,
\* and one where a feat( line raises the bump
C28_Witness ==
    /\ Classified
    /\ \/ fn_in = <<LINE_FEAT, LINE_BREAKING, LINE_FIX>> /\ fn_out[3] = "Major"
       \/ fn_in = <<LINE_FIX, LINE_FEAT>> /\ fn_out[3] = "Minor"

====
